---- MODULE Spec2Model ----
(***************************************************************************)
(* Model of the data synchronizer of Projet_API                           *)
(* (src/app/scripts/sync_data.py, class DataSynchronizer) together with   *)
(* the part of the SQLAlchemy session and of the relational schema        *)
(* (src/app/models/db.py, src/app/core/database.py) that it relies on.    *)
(*                                                                         *)
(* One behaviour is a sequence of runs of main(): each run opens a fresh  *)
(* session and calls sync_all, which calls sync_regions,                  *)
(* sync_departements, sync_stations(limit=0) and sync_lines in that       *)
(* order; the runs go on without end.  sync_stations is modelled one page *)
(* request (one pass through the body of its inner while loop) per step,  *)
(* because every request takes a new answer from the upstream; the other  *)
(* three procedures make one service call each and are one step each.     *)
(*                                                                         *)
(* A page of up to 100 upstream records is represented by a sequence of   *)
(* one to three records: the code reads only whether the page is empty,   *)
(* never its length, and advances the offset by batch_size.               *)
(***************************************************************************)
EXTENDS Integers, Sequences, FiniteSets, TLC

VARIABLES
    db,                  \* the committed tables: regions, departements, stations, lines
    session,             \* self.db: the pending (unflushed) changes of the open session
    pc,                  \* where sync_all is: "regions", "departements", "stations", "lines", "summary"
    results,             \* sync_all: the results dict (-1 while an entry is not yet computed)
    upstream,            \* the sources: which of them is live (any answer at any call) and the
                         \* fixed data of the stations and lines sources
    count,               \* sync_stations local
    offset,              \* sync_stations local
    seen_uic_codes,      \* sync_stations local
    consecutive_errors,  \* sync_stations local
    retry_count,         \* sync_stations local
    fetches,             \* history: requests.get calls of sync_stations in this run, where counted
    attempts_here,       \* history: requests made so far at the current offset
    last_page,           \* history: [kind, timeouts, wait]: how the last request of sync_stations
                         \* in this run ended (ok, empty, or the except clause taken: timeout,
                         \* error), how many requests at its offset have timed out, and the
                         \* seconds its except clause slept before the next attempt
    first_seen,          \* history: per UIC code, the first record examined with it in this run
    skipped,             \* history: the UIC codes of which a record unlike the first was passed over
                         \* as seen in this run
    short,               \* history: a page was skipped in this run, where counted
    previous,            \* history: the database, the results and short at the end of the run
                         \* before, where counted
    served               \* history: the lists the services returned in this run

vars == <<db, session, pc, results, upstream, count, offset, seen_uic_codes,
          consecutive_errors, retry_count, fetches, attempts_here, last_page, first_seen,
          skipped, short, previous, served>>

stationVars == <<count, offset, seen_uic_codes, consecutive_errors, retry_count>>

----------------------------------------------------------------------------
(* Program constants                                                       *)

batch_size == 100

max_retries == 3

max_consecutive_errors == 5

\* sync_all calls sync_stations(limit=0)
limit == 0

(* Bounds of the model                                                     *)

\* a dataset has up to MaxPages pages; sync_stations is followed while its offset
\* is at most MaxPages * batch_size
MaxPages == 3

----------------------------------------------------------------------------
(* Python values                                                           *)

\* dict.get on a key the dict does not hold
Absent == "<absent>"

None == "<None>"

\* updated_at: NULL, a time of an earlier run, a time of the current run.  Every
\* datetime.now of a run reads Now; the next run turns Now into Earlier.
Null_at == "NULL"

Earlier == "earlier"

Now == "now"

\* a JSON null in place of a record: item.get raises AttributeError
Null == "<null>"

\* item.get(f)
Get(item, f) == IF item[f] = Absent THEN None ELSE item[f]

\* item.get(f, default)
GetDefault(item, f, default) == IF item[f] = Absent THEN default ELSE item[f]

\* "v is None" in the place of "not v": the empty string passes
Falsy_NoneOnly(v) == v = None

\* Python truthiness of a str-or-None value, negated: "not v"
Falsy(v) == v \in {None, ""}

IsNull(item) == \A f \in DOMAIN item : item[f] = Null

----------------------------------------------------------------------------
(* Upstream records                                                        *)

K1 == "87271007"

K2 == "87686006"

StationFields == {"code_uic", "libelle", "commune", "departemen", "y_wgs84", "x_wgs84",
                  "fret", "voyageurs"}

GareA(k) == [code_uic |-> k, libelle |-> "Gare A", commune |-> "Laon", departemen |-> "AISNE",
             y_wgs84 |-> "49.57", x_wgs84 |-> "3.62", fret |-> "O", voyageurs |-> "O"]

GareB(k) == [code_uic |-> k, libelle |-> "Gare B", commune |-> "Paris", departemen |-> "PARIS",
             y_wgs84 |-> "48.84", x_wgs84 |-> "2.37", fret |-> "N", voyageurs |-> "N"]

\* a record that holds its UIC code only
GareBare(k) == [f \in StationFields |-> IF f = "code_uic" THEN k ELSE Absent]

NullItem == [f \in StationFields |-> Null]

SeqsUpTo(S, n) == UNION {[1..m -> S] : m \in 0..n}

\* the non-empty pages a live stations source answers with: one record; two keys;
\* one key twice with different attributes; an empty key; a missing key only; a
\* null record after a good one
LivePages ==
    { <<GareA(K1)>>,
      <<GareB(K1), GareBare(K2)>>,
      <<GareA(K1), GareB(K1)>>,
      <<GareA(""), GareBare(K2)>>,
      <<GareB(Absent)>>,
      <<GareBare(K2), NullItem, GareA(K1)>> }

\* the total_count values a response may declare
Totals == {0, 50, 100, 250}

\* those a live source declares
LiveTotals == {250}

----------------------------------------------------------------------------
(* The relational schema (src/app/models/db.py) and the session            *)

Tables == {"regions", "departements", "stations", "lines"}

\* the column that carries unique=True in each table
KeyColumn(tbl) ==
    CASE tbl = "regions"      -> "code"
      [] tbl = "departements" -> "code"
      [] tbl = "stations"     -> "uic_code"
      [] tbl = "lines"        -> "line_code"

\* the rows of table tbl of database d whose key column holds k
RowsWithKey(d, tbl, k) == {i \in DOMAIN d[tbl] : d[tbl][i][KeyColumn(tbl)] = k}

\* a key column without unique=True
UniqueHolds_NotDeclared(d, tbl) == TRUE

\* unique=True on the key column: no two rows of the table share a key
UniqueHolds(d, tbl) ==
    \A i, j \in DOMAIN d[tbl] :
        d[tbl][i][KeyColumn(tbl)] = d[tbl][j][KeyColumn(tbl)] => i = j

\* ForeignKey("regions.code") on departements.region_code, nullable
ForeignKeyHolds(d) ==
    \A i \in DOMAIN d.departements :
        \/ d.departements[i].region_code = None
        \/ RowsWithKey(d, "regions", d.departements[i].region_code) # {}

\* nullable=False on the name column of every table
NotNullHolds(d) ==
    /\ \A i \in DOMAIN d.regions : d.regions[i].nom # None
    /\ \A i \in DOMAIN d.departements : d.departements[i].nom # None
    /\ \A i \in DOMAIN d.stations : d.stations[i].name # None
    /\ \A i \in DOMAIN d.lines : d.lines[i].name # None

ConstraintsHold(d) ==
    /\ \A tbl \in Tables : UniqueHolds(d, tbl)
    /\ ForeignKeyHolds(d)
    /\ NotNullHolds(d)

\* a pending change of the session: db.add(row), or attribute assignments on the
\* persistent row of table tbl loaded by its key
\* db.add of an object mapped to the trains table
AddOp_Train(tbl, row) == [op |-> "add", tbl |-> "trains", key |-> row[KeyColumn(tbl)], vals |-> row]

AddOp(tbl, row) == [op |-> "add", tbl |-> tbl, key |-> row[KeyColumn(tbl)], vals |-> row]

SetOp(tbl, k, vals) == [op |-> "set", tbl |-> tbl, key |-> k, vals |-> vals]

\* the row with the attributes named in vals overwritten
Assign(row, vals) == [f \in DOMAIN row |-> IF f \in DOMAIN vals THEN vals[f] ELSE row[f]]

\* a pending add written as a replacement of the rows of the table
ApplyOp_Replaces(d, o) ==
    IF o.op = "add"
    THEN [d EXCEPT ![o.tbl] = <<o.vals>>]
    ELSE [d EXCEPT ![o.tbl] =
            [i \in DOMAIN @ |-> IF @[i][KeyColumn(o.tbl)] = o.key THEN Assign(@[i], o.vals) ELSE @[i]]]

\* one pending change written to the database
ApplyOp(d, o) ==
    IF o.op = "add"
    THEN [d EXCEPT ![o.tbl] = Append(@, o.vals)]
    ELSE [d EXCEPT ![o.tbl] =
            [i \in DOMAIN @ |-> IF @[i][KeyColumn(o.tbl)] = o.key THEN Assign(@[i], o.vals) ELSE @[i]]]

RECURSIVE Flush(_, _)
\* the flush of a commit: every pending change, in the order it was made
Flush(d, ops) == IF ops = <<>> THEN d ELSE Flush(ApplyOp(d, Head(ops)), Tail(ops))

\* Session.commit(): flush, then COMMIT; a constraint violated at the flush raises
\* IntegrityError and the session rolls the transaction back
Commit(d, ops) ==
    LET flushed == Flush(d, ops)
    IN  IF ConstraintsHold(flushed)
        THEN [ok |-> TRUE, db |-> flushed]
        ELSE [ok |-> FALSE, db |-> d]

\* select(...).where(key column == k): with autoflush=False the pending changes are
\* not flushed first, so only committed rows are found
Select(d, tbl, k) == RowsWithKey(d, tbl, k)

----------------------------------------------------------------------------
(* Rows built by the sync procedures                                       *)

\* Region(code=..., nom=...)
RegionInsertRow(item) ==
    [code |-> Get(item, "code"), nom |-> Get(item, "nom"), updated_at |-> Null_at]

\* existing.nom = ...; existing.updated_at = now
RegionUpdateVals(item, now) == [nom |-> Get(item, "nom"), updated_at |-> now]

DepartementInsertRow(item) ==
    [code |-> Get(item, "code"), nom |-> Get(item, "nom"),
     region_code |-> Get(item, "region_code"), updated_at |-> Null_at]

DepartementUpdateVals(item, now) ==
    [nom |-> Get(item, "nom"), region_code |-> Get(item, "region_code"), updated_at |-> now]

StationInsertRow(item) ==
    [uic_code         |-> Get(item, "code_uic"),
     name             |-> GetDefault(item, "libelle", "Unknown"),
     commune          |-> Get(item, "commune"),
     departement_code |-> Get(item, "departemen"),
     latitude         |-> Get(item, "y_wgs84"),
     longitude        |-> Get(item, "x_wgs84"),
     has_freight      |-> (GetDefault(item, "fret", "N") = "O"),
     has_passengers   |-> (GetDefault(item, "voyageurs", "O") = "O"),
     is_active        |-> TRUE,
     updated_at       |-> Null_at]

\* the update of an existing station without "existing.name = ..."
StationUpdateVals_KeepsName(item, now) ==
    [commune          |-> Get(item, "commune"),
     departement_code |-> Get(item, "departemen"),
     latitude         |-> Get(item, "y_wgs84"),
     longitude        |-> Get(item, "x_wgs84"),
     has_freight      |-> (GetDefault(item, "fret", "N") = "O"),
     has_passengers   |-> (GetDefault(item, "voyageurs", "O") = "O"),
     updated_at       |-> now]

\* the update of an existing station with "existing.is_active = True" added
StationUpdateVals_Activates(item, now) ==
    [name             |-> GetDefault(item, "libelle", "Unknown"),
     commune          |-> Get(item, "commune"),
     departement_code |-> Get(item, "departemen"),
     latitude         |-> Get(item, "y_wgs84"),
     longitude        |-> Get(item, "x_wgs84"),
     has_freight      |-> (GetDefault(item, "fret", "N") = "O"),
     has_passengers   |-> (GetDefault(item, "voyageurs", "O") = "O"),
     is_active        |-> TRUE,
     updated_at       |-> now]

\* existing.name = ...; ...; existing.updated_at = now
StationUpdateVals(item, now) ==
    [name             |-> GetDefault(item, "libelle", "Unknown"),
     commune          |-> Get(item, "commune"),
     departement_code |-> Get(item, "departemen"),
     latitude         |-> Get(item, "y_wgs84"),
     longitude        |-> Get(item, "x_wgs84"),
     has_freight      |-> (GetDefault(item, "fret", "N") = "O"),
     has_passengers   |-> (GetDefault(item, "voyageurs", "O") = "O"),
     updated_at       |-> now]

\* the field network of a line record holds the name found in its network dict,
\* or Absent when the record has no network dict or the dict has no name
LineInsertRow(item) ==
    [line_code  |-> Get(item, "id"),
     name       |-> GetDefault(item, "name", "Unknown"),
     network    |-> Get(item, "network"),
     color      |-> Get(item, "color"),
     text_color |-> Get(item, "text_color"),
     is_active  |-> TRUE,
     updated_at |-> Null_at]

\* the update of an existing line without "existing.color = color"
LineUpdateVals_KeepsColor(item, now) ==
    [name       |-> GetDefault(item, "name", "Unknown"),
     network    |-> Get(item, "network"),
     text_color |-> Get(item, "text_color"),
     updated_at |-> now]

LineUpdateVals(item, now) ==
    [name       |-> GetDefault(item, "name", "Unknown"),
     network    |-> Get(item, "network"),
     color      |-> Get(item, "color"),
     text_color |-> Get(item, "text_color"),
     updated_at |-> now]

\* db.add(...) whether or not a row with the key exists
Upsert_AlwaysAdd(d, tbl, k, insertRow, updateVals) == AddOp(tbl, insertRow)

\* "if existing: ... else: ...add(...)" on the result of scalar_one_or_none()
Upsert(d, tbl, k, insertRow, updateVals) ==
    IF Select(d, tbl, k) # {} THEN SetOp(tbl, k, updateVals) ELSE AddOp(tbl, insertRow)

\* scalar_one_or_none() raises MultipleResultsFound on more than one row
SelectRaises(d, tbl, k) == Cardinality(Select(d, tbl, k)) > 1

----------------------------------------------------------------------------
(* The loops over the records                                              *)

\* the state a loop over records carries: the pending changes, the counter, the
\* keys seen (stations and lines) and whether an exception left the loop
LoopStart(ops, seen) == [ops |-> ops, n |-> 0, seen |-> seen, raised |-> FALSE]

\* sync_regions, the body of "for item in regions_data"
RegionItemStep(st, item, d, now) ==
    LET region_code == Get(item, "code")
        region_name == Get(item, "nom")
    IN  IF Falsy(region_code) \/ Falsy(region_name) THEN st
        ELSE IF SelectRaises(d, "regions", region_code) THEN [st EXCEPT !.raised = TRUE]
        ELSE [st EXCEPT !.ops = Append(@, Upsert(d, "regions", region_code,
                                  RegionInsertRow(item), RegionUpdateVals(item, now))),
                        !.n = @ + 1]

\* sync_departements, the body of "for item in dept_data"
DepartementItemStep(st, item, d, now) ==
    LET dept_code == Get(item, "code")
        dept_name == Get(item, "nom")
    IN  IF Falsy(dept_code) \/ Falsy(dept_name) THEN st
        ELSE IF SelectRaises(d, "departements", dept_code) THEN [st EXCEPT !.raised = TRUE]
        ELSE [st EXCEPT !.ops = Append(@, Upsert(d, "departements", dept_code,
                                  DepartementInsertRow(item), DepartementUpdateVals(item, now))),
                        !.n = @ + 1]

\* the body of "for item in results" without the test of line 157: a record whose
\* code was seen is treated as the first one is
StationItemStep_NoSeenTest(st, item, d, now) ==
    IF IsNull(item) THEN [st EXCEPT !.raised = TRUE]
    ELSE LET uic_code == Get(item, "code_uic")
         IN  IF Falsy(uic_code) THEN st
             ELSE IF SelectRaises(d, "stations", uic_code)
                  THEN [st EXCEPT !.seen = @ \cup {uic_code}, !.raised = TRUE]
             ELSE [st EXCEPT !.seen = @ \cup {uic_code},
                             !.ops = Append(@, Upsert(d, "stations", uic_code,
                                       StationInsertRow(item), StationUpdateVals(item, now))),
                             !.n = @ + 1]

\* sync_stations, the body of "for item in results"
StationItemStep(st, item, d, now) ==
    IF IsNull(item) THEN [st EXCEPT !.raised = TRUE]
    ELSE LET uic_code == Get(item, "code_uic")
         IN  IF Falsy(uic_code) THEN st
             ELSE IF uic_code \in st.seen THEN st
             ELSE IF SelectRaises(d, "stations", uic_code)
                  THEN [st EXCEPT !.seen = @ \cup {uic_code}, !.raised = TRUE]
             ELSE [st EXCEPT !.seen = @ \cup {uic_code},
                             !.ops = Append(@, Upsert(d, "stations", uic_code,
                                       StationInsertRow(item), StationUpdateVals(item, now))),
                             !.n = @ + 1]

\* sync_lines, the body of "for item in lines_data"
LineItemStep(st, item, d, now) ==
    LET line_code == Get(item, "id")
    IN  IF Falsy(line_code) THEN st
        ELSE IF line_code \in st.seen THEN st
        ELSE IF SelectRaises(d, "lines", line_code)
             THEN [st EXCEPT !.seen = @ \cup {line_code}, !.raised = TRUE]
        ELSE [st EXCEPT !.seen = @ \cup {line_code},
                        !.ops = Append(@, Upsert(d, "lines", line_code,
                                  LineInsertRow(item), LineUpdateVals(item, now))),
                        !.n = @ + 1]

ItemStep(tbl, st, item, d, now) ==
    CASE tbl = "regions"      -> RegionItemStep(st, item, d, now)
      [] tbl = "departements" -> DepartementItemStep(st, item, d, now)
      [] tbl = "stations"     -> StationItemStep(st, item, d, now)
      [] tbl = "lines"        -> LineItemStep(st, item, d, now)

RECURSIVE Loop(_, _, _, _, _)
\* the for loop of a sync procedure over items; an exception ends it
Loop(tbl, st, items, d, now) ==
    IF items = <<>> \/ st.raised THEN st
    ELSE Loop(tbl, ItemStep(tbl, st, Head(items), d, now), Tail(items), d, now)

----------------------------------------------------------------------------
(* The upstream sources                                                    *)

\* OpenDataSoftService.get_regions and get_departements return literal lists;
\* two entries of each stand for the whole list
StaticRegions ==
    << [nom |-> "Auvergne-Rhone-Alpes", code |-> "84"],
       [nom |-> "Ile-de-France", code |-> "11"] >>

StaticDepartements ==
    << [nom |-> "Paris", code |-> "75", region_code |-> "11"],
       [nom |-> "Ain", code |-> "01", region_code |-> "84"] >>

\* the lists a live (replaced) regions service returns: the list of the service as
\* it is; nothing; one region; the region under another name; one code twice; an
\* empty code, a missing code and an empty name
RegionLists ==
    { StaticRegions,
      <<>>,
      <<[nom |-> "Auvergne-Rhone-Alpes", code |-> "84"]>>,
      <<[nom |-> "Rhone-Alpes", code |-> "84"]>>,
      <<[nom |-> "Auvergne-Rhone-Alpes", code |-> "84"], [nom |-> "Rhone-Alpes", code |-> "84"]>>,
      <<[nom |-> "Bretagne", code |-> ""], [nom |-> "Corse", code |-> Absent],
        [nom |-> "", code |-> "53"], [nom |-> "Ile-de-France", code |-> "11"]>> }

\* the lists a live departements service returns: likewise, and a region code that
\* no region carries
DepartementLists ==
    { <<>>,
      <<[nom |-> "Ain", code |-> "01", region_code |-> "84"]>>,
      <<[nom |-> "AIN", code |-> "01", region_code |-> Absent]>>,
      <<[nom |-> "Ain", code |-> "01", region_code |-> "84"],
        [nom |-> "AIN", code |-> "01", region_code |-> Absent]>>,
      <<[nom |-> "Paris", code |-> "", region_code |-> "11"],
        [nom |-> "Paris", code |-> Absent, region_code |-> "11"],
        [nom |-> "", code |-> "75", region_code |-> "11"]>>,
      <<[nom |-> "Var", code |-> "83", region_code |-> "93"]>> }

LineA == [id |-> "line:SNCF:A", name |-> "Ligne A", network |-> "SNCF",
          color |-> "FF0000", text_color |-> "FFFFFF"]

LineBare == [id |-> "line:SNCF:A", name |-> Absent, network |-> Absent,
             color |-> Absent, text_color |-> Absent]

\* the lists a live lines source makes get_lines return
LineLists ==
    { <<>>,
      <<LineA>>,
      <<LineBare>>,
      <<LineBare, LineA>>,
      <<[id |-> "", name |-> "Ligne B", network |-> "TER",
         color |-> "00FF00", text_color |-> "000000"],
        [id |-> Absent, name |-> "Ligne C", network |-> "TER",
         color |-> "0000FF", text_color |-> "000000"],
        LineA>> }

\* a line of the Navitia coverage
LineOf(id) == [id |-> id, name |-> "Ligne", network |-> "SNCF",
               color |-> "FF0000", text_color |-> "FFFFFF"]

\* stands for a response without pagination.total_result
NoTotal == -1

\* the Navitia lines endpoint: the pages it serves for start_page = 0, 1, ... (an
\* empty page past the last), the pagination.total_result of its responses (NoTotal
\* when the responses carry none) and the request that raises (0: none does)
NavitiaSources ==
    { [pages |-> ps, total_result |-> t, fails_at |-> f] :
        ps \in { <<>>,
                 << <<LineOf("line:A"), LineOf("line:B")>> >>,
                 << <<LineOf("line:A"), LineOf("line:B")>>, <<LineOf("line:C")>> >>,
                 << <<LineOf("line:A"), LineOf("line:B")>>, <<LineOf("line:C"), LineOf("line:D")>>,
                    <<LineOf("line:E")>> >> },
        t \in {NoTotal, 0, 2, 3, 5, 9},
        f \in 0..MaxPages }

\* get_lines returning what it has fetched when a request raises
get_lines_KeepsFetched(p) == p.lines

\* the except clause of get_lines (lines 115-116): p is what the try block reached
get_lines(p) == IF p.raised THEN <<>> ELSE p.lines

RECURSIVE Paginate(_, _, _)
\* the while loop of the try block of get_lines (lines 95-112), at the request for
\* start_page with all_lines fetched so far
Paginate(src, start_page, all_lines) ==
    IF src.fails_at = start_page + 1 THEN [raised |-> TRUE, lines |-> all_lines]
    ELSE LET lines == IF start_page + 1 <= Len(src.pages) THEN src.pages[start_page + 1] ELSE <<>>
             total_result == IF src.total_result = NoTotal THEN 0 ELSE src.total_result
         IN  IF lines = <<>> THEN [raised |-> FALSE, lines |-> all_lines]
             ELSE IF Len(all_lines \o lines) >= total_result
                  THEN [raised |-> FALSE, lines |-> all_lines \o lines]
             ELSE Paginate(src, start_page + 1, all_lines \o lines)

\* a stations dataset that does not change: the declared total_count, the pages in
\* offset order and, past the last page, either empty pages or (wrap) the last page
\* again at every offset
PageAt(snapshot, off) ==
    LET i == (off \div batch_size) + 1
    IN  IF i <= Len(snapshot.pages) THEN snapshot.pages[i]
        ELSE IF snapshot.wrap /\ snapshot.pages # <<>> THEN snapshot.pages[Len(snapshot.pages)]
        ELSE <<>>

DefaultStations ==
    [total_count |-> 150, pages |-> << <<GareA(K1)>>, <<GareBare(K2)>> >>, wrap |-> FALSE]

DefaultLines == <<LineA>>

\* the pages a snapshot is made of
SnapshotPages ==
    { <<GareA(K1)>>,
      <<GareB(K1), GareBare(K2)>>,
      <<GareA(""), GareA(K1)>>,
      <<GareBare(K2), GareB(Absent)>> }

Snapshots ==
    { [total_count |-> t, pages |-> ps, wrap |-> w] :
        t \in Totals, ps \in SeqsUpTo(SnapshotPages, MaxPages), w \in BOOLEAN }

\* the lines lists of a snapshot
SnapshotLines ==
    { <<>>, <<LineA>>, <<LineBare, LineA>> }

\* behaviours with one live source: the answers of that source are arbitrary at
\* every call, the other sources answer with fixed data
LiveEnvs ==
    { [live |-> {t}, stations |-> DefaultStations, lines |-> DefaultLines] : t \in Tables }

\* behaviours in which no source ever changes its data
SnapshotEnvs ==
    { [live |-> {}, stations |-> s, lines |-> l] :
        s \in Snapshots, l \in SnapshotLines }

\* one-page snapshots, for the runs between which the dataset is replaced
ResyncEnvs ==
    { [live |-> {}, stations |-> [total_count |-> 50, pages |-> <<p>>, wrap |-> FALSE],
       lines |-> DefaultLines] : p \in SnapshotPages }

\* two-page snapshots, for the runs in which requests fail against unchanged data:
\* the second page brings nothing new, or a new station; past it the source answers
\* with empty pages, or never does
FlakyEnvs ==
    { [live |-> {}, stations |-> [total_count |-> 150, pages |-> <<<<GareA(K1)>>, p>>, wrap |-> w],
       lines |-> DefaultLines] :
        p \in {<<GareA(""), GareA(K1)>>, <<GareB(K1), GareBare(K2)>>}, w \in BOOLEAN }

\* one-page snapshots whose page holds two stations, well formed or with a null
\* record between them
MalformedEnvs ==
    { [live |-> {}, stations |-> [total_count |-> 50, pages |-> <<p>>, wrap |-> FALSE],
       lines |-> DefaultLines] :
        p \in {<<GareBare(K2), GareA(K1)>>, <<GareBare(K2), NullItem, GareA(K1)>>} }

\* the lines come from a Navitia endpoint that get_lines pages through
NavitiaEnvs ==
    { [live |-> {}, stations |-> DefaultStations, navitia |-> src] : src \in NavitiaSources }

\* behaviours of a caller that passes its own limit to sync_stations: the dataset
\* holds one station per page, or two on its second page
LimitEnvs ==
    { [live |-> {}, stations |-> [total_count |-> 250, pages |-> ps, wrap |-> FALSE],
       lines |-> DefaultLines, limit |-> l] :
        ps \in { << <<GareA(K1)>>, <<GareBare(K2)>>, <<GareB(K1)>> >>,
                 << <<GareA(K1)>>, <<GareB(K1), GareBare(K2)>>, <<GareA(K1)>> >> },
        l \in 0..MaxPages }

\* the limit that sync_stations is called with: the one sync_all passes, unless the
\* behaviour is one of a caller with a limit of its own.  The code reads it in the
\* test of line 210 only, which guards the break of line 211 and the sleep of line
\* 214: see AfterAttempt.
Limit == IF "limit" \in DOMAIN upstream THEN upstream.limit ELSE limit

\* what get_regions() may return
RegionsAnswers ==
    IF "regions" \in upstream.live THEN RegionLists ELSE {StaticRegions}

\* what get_departements() may return
DepartementsAnswers ==
    IF "departements" \in upstream.live
    THEN DepartementLists ELSE {StaticDepartements}

\* what get_lines() may return
LinesAnswers ==
    IF "lines" \in upstream.live THEN LineLists
    ELSE IF "navitia" \in DOMAIN upstream THEN {get_lines(Paginate(upstream.navitia, 0, <<>>))}
    ELSE {upstream.lines}

\* what response.json() may hold at line 142 for the request at offset off
StationResponses(off) ==
    IF "stations" \in upstream.live
    THEN { [results |-> p, total_count |-> t] : p \in LivePages \cup {<<>>}, t \in LiveTotals }
    ELSE { [results |-> PageAt(upstream.stations, off),
            total_count |-> upstream.stations.total_count] }

----------------------------------------------------------------------------
(* History kept for the properties                                         *)

NoItem == [f \in StationFields |-> "<none>"]

NotServed == [called |-> FALSE, data |-> <<>>]

Served(data) == [called |-> TRUE, data |-> data]

RECURSIVE NoteFirst(_, _)
\* first_seen after the records of items were examined in order, up to a null record
NoteFirst(fs, items) ==
    IF items = <<>> \/ IsNull(Head(items)) THEN fs
    ELSE LET k == Get(Head(items), "code_uic")
         IN  NoteFirst(IF k \in DOMAIN fs /\ fs[k] = NoItem THEN [fs EXCEPT ![k] = Head(items)] ELSE fs,
                       Tail(items))

\* the records of items the loop of sync_stations examines: those before a null one
Examined(items) ==
    IF \E i \in DOMAIN items : IsNull(items[i])
    THEN SubSeq(items, 1, (CHOOSE i \in DOMAIN items :
                             IsNull(items[i]) /\ \A j \in 1..(i - 1) : ~IsNull(items[j])) - 1)
    ELSE items

\* skipped after the records of items were examined, fs being first_seen after them
NoteSkipped(sk, fs, items) ==
    sk \cup { k \in DOMAIN fs :
                \E i \in DOMAIN Examined(items) :
                    Get(items[i], "code_uic") = k /\ items[i] # fs[k] }

\* last_page before the first request of a run
NoPage == [kind |-> "none", timeouts |-> 0, wait |-> 0]

\* the requests of a run and the outcome of the run before are recorded where the
\* data set does not change between requests
Counting == upstream.live = {}

----------------------------------------------------------------------------
(* Initial state: main() on an empty database                              *)

EmptyDb ==
    [regions |-> <<>>, departements |-> <<>>, stations |-> <<>>, lines |-> <<>>, trains |-> <<>>]

NoResults == [regions |-> -1, departements |-> -1, stations |-> -1, lines |-> -1]

\* previous in the first run
NoPrevious == [db |-> EmptyDb, results |-> NoResults, short |-> FALSE]

InitRun ==
    /\ short = FALSE
    /\ session = <<>>
    /\ pc = "regions"
    /\ results = NoResults
    /\ count = 0
    /\ offset = 0
    /\ seen_uic_codes = {}
    /\ consecutive_errors = 0
    /\ retry_count = 0
    /\ fetches = 0
    /\ attempts_here = 0
    /\ last_page = NoPage
    /\ first_seen = [k \in {K1, K2} |-> NoItem]
    /\ skipped = {}
    /\ served = [regions |-> NotServed, departements |-> NotServed, lines |-> NotServed]

Init ==
    /\ db = EmptyDb
    /\ previous = NoPrevious
    /\ upstream \in LiveEnvs
    /\ InitRun

InitResync ==
    /\ db = EmptyDb
    /\ previous = NoPrevious
    /\ upstream \in ResyncEnvs
    /\ InitRun

InitFlaky ==
    /\ db = EmptyDb
    /\ previous = NoPrevious
    /\ upstream \in FlakyEnvs
    /\ InitRun

\* a row whose is_active column was set to false since the sync inserted it
Deactivated(row) == [row EXCEPT !.is_active = FALSE]

\* a row of the trains table, written by another program
TrainRow ==
    [train_number |-> "8813", line_code |-> "line:SNCF:A", origin |-> "Paris",
     destination |-> "Laon", status |-> "on_time", is_active |-> TRUE, updated_at |-> Null_at]

\* databases found by a run of main(): a station and a line of earlier runs, both
\* deactivated since, and a train of that line
ExistingDbs ==
    { [EmptyDb EXCEPT !.stations = <<Deactivated(StationInsertRow(GareB(K1)))>>,
                      !.lines = <<Deactivated(LineInsertRow(LineBare))>>,
                      !.trains = <<TrainRow>>] }

InitExisting ==
    /\ db \in ExistingDbs
    /\ previous = NoPrevious
    /\ upstream \in ResyncEnvs
    /\ InitRun

InitMalformed ==
    /\ db = EmptyDb
    /\ previous = NoPrevious
    /\ upstream \in MalformedEnvs
    /\ InitRun

InitNavitia ==
    /\ db = EmptyDb
    /\ previous = NoPrevious
    /\ upstream \in NavitiaEnvs
    /\ InitRun

InitLimit ==
    /\ db = EmptyDb
    /\ previous = NoPrevious
    /\ upstream \in LimitEnvs
    /\ InitRun

InitSnapshot ==
    /\ db = EmptyDb
    /\ previous = NoPrevious
    /\ upstream \in SnapshotEnvs
    /\ InitRun

----------------------------------------------------------------------------
(* sync_regions, sync_departements, sync_lines                             *)

\* the results dict of sync_all with the lines before the stations
sync_all_LinesFirst == <<"regions", "departements", "lines", "stations">>

\* the procedures in the order in which the results dict of sync_all calls them
sync_all == <<"regions", "departements", "stations", "lines">>

\* where sync_all is once the procedure for tbl has returned
Then(tbl) ==
    LET i == CHOOSE j \in DOMAIN sync_all : sync_all[j] = tbl
    IN  IF i = Len(sync_all) THEN "summary" ELSE sync_all[i + 1]

\* a failure may strike the procedure whose source is the live one and, where no
\* source is live, every procedure
CanFail(tbl) == upstream.live \subseteq {tbl}

\* the procedure with a commit after every record and no rollback: what the first
\* record brought stays when a later one fails
SyncList_NoRollback(tbl, data, dbFails, nextPc) ==
    LET st == Loop(tbl, LoopStart(session, {}), data, db, Now)
        c  == Commit(db, st.ops)
        done == ~st.raised /\ ~dbFails /\ c.ok
        first == IF st.ops = <<>> THEN db ELSE Commit(db, <<st.ops[1]>>).db
    IN  /\ db' = IF done THEN c.db ELSE first
        /\ session' = <<>>
        /\ results' = [results EXCEPT ![tbl] = IF done THEN st.n ELSE 0]
        /\ served' = [served EXCEPT ![tbl] = Served(data)]
        /\ pc' = nextPc
        /\ UNCHANGED <<upstream, stationVars, fetches, attempts_here, last_page, first_seen,
                       skipped, short, previous>>

\* One of the three procedures that make one service call: the loop over the
\* returned list, one commit, and on any exception rollback and return 0.
\* dbFails: the commit raises for a reason other than a constraint.
SyncList(tbl, data, dbFails, nextPc) ==
    LET st == Loop(tbl, LoopStart(session, {}), data, db, Now)
        c  == Commit(db, st.ops)
        done == ~st.raised /\ ~dbFails /\ c.ok
    IN  /\ db' = IF done THEN c.db ELSE db
        /\ session' = <<>>
        /\ results' = [results EXCEPT ![tbl] = IF done THEN st.n ELSE 0]
        /\ served' = [served EXCEPT ![tbl] = Served(data)]
        /\ pc' = nextPc
        /\ UNCHANGED <<upstream, stationVars, fetches, attempts_here, last_page, first_seen,
                       skipped, short, previous>>

SyncRegions ==
    /\ pc = "regions"
    /\ \E data \in RegionsAnswers : SyncList("regions", data, FALSE, Then("regions"))

SyncRegionsCommitFails ==
    /\ pc = "regions"
    /\ CanFail("regions")
    /\ \E data \in RegionsAnswers : SyncList("regions", data, TRUE, Then("regions"))

SyncDepartements ==
    /\ pc = "departements"
    /\ \E data \in DepartementsAnswers : SyncList("departements", data, FALSE, Then("departements"))

SyncDepartementsCommitFails ==
    /\ pc = "departements"
    /\ CanFail("departements")
    /\ \E data \in DepartementsAnswers : SyncList("departements", data, TRUE, Then("departements"))

SyncLines ==
    /\ pc = "lines"
    /\ \E data \in LinesAnswers : SyncList("lines", data, FALSE, Then("lines"))

SyncLinesCommitFails ==
    /\ pc = "lines"
    /\ CanFail("lines")
    /\ \E data \in LinesAnswers : SyncList("lines", data, TRUE, Then("lines"))

----------------------------------------------------------------------------
(* sync_stations                                                           *)

\* a successful page that leaves consecutive_errors as it is
ErrorsAfterSuccess_Kept(ce) == ce

\* line 205: consecutive_errors = 0
ErrorsAfterSuccess(ce) == 0

\* line 130: while retry_count < max_retries and not success
InnerContinues(r, success) == r < max_retries /\ ~success

\* lines 243-253: the three exits of the outer loop
OuterBreaks(no_more_data, ce, success) ==
    \/ no_more_data
    \/ ce >= max_consecutive_errors
    \/ ~success

\* line 210: the test that guards the break of line 211
ReachedEnd(off, total_count, lim, cnt) == off >= total_count \/ (lim > 0 /\ cnt >= lim)

\* From the end of one pass through the inner loop body to the next request or to
\* the return of line 256, where the locals of the call end.  The break of line 211
\* leaves the inner loop only, as does success = True: both reach the tests of
\* lines 243-253.
AfterAttempt(r, success, no_more_data, ce, cnt, off, seen) ==
    IF InnerContinues(r, success)
    THEN /\ retry_count' = r
         /\ consecutive_errors' = ce
         /\ count' = cnt
         /\ offset' = off
         /\ seen_uic_codes' = seen
         /\ pc' = pc
         /\ results' = results
    ELSE IF OuterBreaks(no_more_data, ce, success)
    THEN /\ retry_count' = 0
         /\ consecutive_errors' = 0
         /\ count' = 0
         /\ offset' = 0
         /\ seen_uic_codes' = {}
         /\ pc' = Then("stations")
         /\ results' = [results EXCEPT !.stations = cnt]
    ELSE /\ retry_count' = 0
         /\ consecutive_errors' = ce
         /\ count' = cnt
         /\ offset' = off
         /\ seen_uic_codes' = seen
         /\ pc' = pc
         /\ results' = results

\* the except clauses without "offset += batch_size" when the retries are used up
ExceptHandler_NoSkip(seen) ==
    LET r == retry_count + 1
        ce == consecutive_errors + 1
    IN  IF r < max_retries
        THEN AfterAttempt(r, FALSE, FALSE, ce, count, offset, seen)
        ELSE AfterAttempt(r, TRUE, FALSE, ce, count, offset, seen)

\* the except clauses leaving success False and the offset where it is when the
\* retries are used up
ExceptHandler_GivesUp(seen) ==
    AfterAttempt(retry_count + 1, FALSE, FALSE, consecutive_errors + 1, count, offset, seen)

\* lines 216-228 and 230-240: the two except clauses differ in the sleep only
ExceptHandler(seen) ==
    LET r == retry_count + 1
        ce == consecutive_errors + 1
    IN  IF r < max_retries
        THEN AfterAttempt(r, FALSE, FALSE, ce, count, offset, seen)
        ELSE AfterAttempt(r, TRUE, FALSE, ce, count, offset + batch_size, seen)

\* a request can be made: sync_stations is running, below the bound of the model
CanRequest == pc = "stations" /\ offset <= MaxPages * batch_size

\* wait_time = retry_count * 5 without the factor retry_count
TimeoutWait_Constant(r) == 5

\* line 219: wait_time = retry_count * 5, in seconds
TimeoutWait(r) == r * 5

\* line 236: time.sleep(retry_count * 2)
ErrorWait(r) == r * 2

\* the seconds slept by the except clause taken after the attempt that ended as kind,
\* retry_count already incremented to r: none once the retries are used up
Backoff(kind, r) ==
    IF kind \notin {"timeout", "error"} \/ r >= max_retries THEN 0
    ELSE IF kind = "timeout" THEN TimeoutWait(r)
    ELSE ErrorWait(r)

NoteRequest(kind) ==
    /\ fetches' = IF Counting THEN fetches + 1 ELSE fetches
    /\ attempts_here' = IF offset' = offset /\ pc' = "stations" THEN attempts_here + 1 ELSE 0
    /\ short' = (short \/ (Counting /\ kind \in {"timeout", "error"}
                                    /\ retry_count + 1 >= max_retries))
    /\ last_page' = [kind |-> kind,
                     timeouts |-> (IF retry_count = 0 THEN 0 ELSE last_page.timeouts)
                                  + (IF kind = "timeout" THEN 1 ELSE 0),
                     wait |-> Backoff(kind, retry_count + 1)]

\* requests.get raises requests.exceptions.Timeout
StationsTimeout ==
    /\ CanRequest
    /\ CanFail("stations")
    /\ ExceptHandler(seen_uic_codes)
    /\ NoteRequest("timeout")
    /\ UNCHANGED <<db, session, upstream, first_seen, skipped, previous, served>>

\* requests.get, raise_for_status or response.json raises another exception
StationsRequestError ==
    /\ CanRequest
    /\ CanFail("stations")
    /\ ExceptHandler(seen_uic_codes)
    /\ NoteRequest("error")
    /\ UNCHANGED <<db, session, upstream, first_seen, skipped, previous, served>>

\* lines 145-149: the response holds no results
StationsEmptyPage ==
    /\ CanRequest
    /\ \E resp \in StationResponses(offset) :
        /\ resp.results = <<>>
        /\ AfterAttempt(retry_count, TRUE, TRUE, consecutive_errors, count, offset, seen_uic_codes)
        /\ NoteRequest("empty")
    /\ UNCHANGED <<db, session, upstream, first_seen, skipped, previous, served>>

\* lines 151-214: the response holds results; the records are examined, then the
\* commit of line 200.  An exception of the loop, or a constraint violated at the
\* commit, goes to the except clause of line 230.
StationsPage ==
    /\ CanRequest
    /\ \E resp \in StationResponses(offset) :
        /\ resp.results # <<>>
        /\ LET st == Loop("stations", LoopStart(session, seen_uic_codes), resp.results, db, Now)
               c  == Commit(db, st.ops)
           IN  /\ first_seen' = NoteFirst(first_seen, resp.results)
               /\ skipped' = NoteSkipped(skipped, first_seen', resp.results)
               /\ IF st.raised
                  THEN /\ db' = db
                       /\ session' = st.ops
                       /\ ExceptHandler(st.seen)
                       /\ NoteRequest("error")
                  ELSE IF ~c.ok
                  THEN /\ db' = db
                       /\ session' = <<>>
                       /\ ExceptHandler(st.seen)
                       /\ NoteRequest("error")
                  ELSE /\ db' = c.db
                       /\ session' = <<>>
                       /\ AfterAttempt(retry_count, TRUE, FALSE,
                                       ErrorsAfterSuccess(consecutive_errors),
                                       count + st.n, offset + batch_size, st.seen)
                       /\ NoteRequest("ok")
    /\ UNCHANGED <<upstream, previous, served>>

\* as StationsPage, but the commit of line 200 raises for a reason other than a
\* constraint (the database is unreachable); the session rolls back
StationsCommitFails ==
    /\ CanRequest
    /\ CanFail("stations")
    /\ \E resp \in StationResponses(offset) :
        /\ resp.results # <<>>
        /\ LET st == Loop("stations", LoopStart(session, seen_uic_codes), resp.results, db, Now)
           IN  /\ ~st.raised
               /\ first_seen' = NoteFirst(first_seen, resp.results)
               /\ skipped' = NoteSkipped(skipped, first_seen', resp.results)
               /\ db' = db
               /\ session' = <<>>
               /\ ExceptHandler(st.seen)
               /\ NoteRequest("error")
    /\ UNCHANGED <<upstream, previous, served>>

----------------------------------------------------------------------------
(* main(): the next run, in a new process with a new session               *)

\* the database when the clock has moved on to the next run
Age(d) ==
    [tbl \in DOMAIN d |->
        [i \in DOMAIN d[tbl] |->
            IF d[tbl][i].updated_at = Now THEN [d[tbl][i] EXCEPT !.updated_at = Earlier]
            ELSE d[tbl][i]]]

\* main() is started again: a new process, a new session, new locals
StartRun ==
    /\ pc = "summary"
    /\ db' = Age(db)
    /\ session' = <<>>
    /\ pc' = Head(sync_all)
    /\ results' = NoResults
    /\ count' = 0
    /\ offset' = 0
    /\ seen_uic_codes' = {}
    /\ consecutive_errors' = 0
    /\ retry_count' = 0
    /\ fetches' = 0
    /\ attempts_here' = 0
    /\ last_page' = NoPage
    /\ first_seen' = [k \in {K1, K2} |-> NoItem]
    /\ skipped' = {}
    /\ short' = FALSE
    /\ previous' = IF Counting THEN [db |-> Age(db), results |-> results, short |-> short]
                    ELSE previous
    /\ served' = [regions |-> NotServed, departements |-> NotServed, lines |-> NotServed]

\* the next run, the sources being what they were
NextRun ==
    /\ StartRun
    /\ UNCHANGED upstream

\* the next run, after the stations dataset was replaced by another snapshot
NextRunAfterChange ==
    /\ StartRun
    /\ upstream' \in ResyncEnvs

----------------------------------------------------------------------------
(* Specifications                                                          *)

Next ==
    \/ SyncRegions
    \/ SyncRegionsCommitFails
    \/ SyncDepartements
    \/ SyncDepartementsCommitFails
    \/ StationsTimeout
    \/ StationsRequestError
    \/ StationsEmptyPage
    \/ StationsPage
    \/ StationsCommitFails
    \/ SyncLines
    \/ SyncLinesCommitFails
    \/ NextRun

\* one live source, every failure possible
Spec == Init /\ [][Next]_vars

NextClean ==
    \/ SyncRegions
    \/ SyncDepartements
    \/ StationsEmptyPage
    \/ StationsPage
    \/ SyncLines
    \/ NextRun

\* unchanging sources, no request or commit fails
SpecSnapshot == InitSnapshot /\ [][NextClean]_vars

\* the next run, the Navitia endpoint having changed what it serves
NextRunNavitia ==
    /\ StartRun
    /\ upstream' \in NavitiaEnvs

NextNavitia ==
    \/ SyncRegions
    \/ SyncDepartements
    \/ StationsEmptyPage
    \/ StationsPage
    \/ SyncLines
    \/ NextRunNavitia

\* get_lines pages through a Navitia endpoint, a request of which may fail; the
\* endpoint changes between the runs only
SpecNavitia == InitNavitia /\ [][NextNavitia]_vars

\* sync_stations called with a limit, no request or commit fails
SpecLimit == InitLimit /\ [][NextClean]_vars

NextRetry ==
    \/ SyncRegions
    \/ SyncDepartements
    \/ StationsCommitFails
    \/ StationsEmptyPage
    \/ StationsPage
    \/ SyncLines
    \/ NextRun

\* unchanging sources, commits of sync_stations fail
SpecRetry == InitMalformed /\ [][NextRetry]_vars

NextFlaky ==
    \/ SyncRegions
    \/ SyncDepartements
    \/ StationsTimeout
    \/ StationsRequestError
    \/ StationsEmptyPage
    \/ StationsPage
    \/ SyncLines
    \/ NextRun

\* unchanging sources, requests of sync_stations fail
SpecFlaky == InitFlaky /\ [][NextFlaky]_vars

\* the same with the process of main always taking its next step
SpecFlakyFair == SpecFlaky /\ WF_vars(NextFlaky)

NextResync ==
    \/ SyncRegions
    \/ SyncDepartements
    \/ StationsEmptyPage
    \/ StationsPage
    \/ SyncLines
    \/ NextRunAfterChange

\* sources that change between the runs only, no request or commit fails
SpecResync == InitResync /\ [][NextResync]_vars

\* unchanging sources, a page of which may be malformed; requests fail
SpecMalformed == InitMalformed /\ [][NextFlaky]_vars

\* the same on a database that earlier runs have filled
SpecExisting == InitExisting /\ [][NextResync]_vars

----------------------------------------------------------------------------
(* Properties                                                              *)

Range(f) == {f[i] : i \in DOMAIN f}

CeilDiv(a, b) == (a + b - 1) \div b

\* sync_stations has returned in this run
StationsReturned == pc \in {"lines", "summary"}

\* the row carries the attribute values a sync procedure derives from a record,
\* the time of the update apart
Reflects(row, vals) == \A f \in DOMAIN vals \ {"updated_at"} : row[f] = vals[f]

\* a stations dataset that serves a non-empty page at every offset below the total
\* it declares and an empty one from there on
WellBehaved(snapshot) ==
    /\ ~snapshot.wrap
    /\ snapshot.total_count > 0
    /\ Len(snapshot.pages) = CeilDiv(snapshot.total_count, batch_size)

\* C1: against a dataset that declares total_count = T and serves its pages without
\* failure, sync_stations has made exactly ceil(T/100) requests when it returns.
C1_ExactFetches ==
    (StationsReturned /\ WellBehaved(upstream.stations))
        => fetches = CeilDiv(upstream.stations.total_count, batch_size)

\* C2: against a dataset that never answers with an empty page, once a page has been
\* processed and the offset has reached the declared total_count, sync_stations has
\* returned.
C2_StopsAtTotal ==
    (upstream.stations.wrap /\ upstream.stations.total_count > 0 /\ last_page.kind = "ok"
        /\ ReachedEnd(offset, upstream.stations.total_count, limit, count))
        => StationsReturned

\* the first record of the list that carries line id k
FirstLine(data, k) ==
    data[CHOOSE i \in DOMAIN data :
            /\ Get(data[i], "id") = k
            /\ \A j \in 1..(i - 1) : Get(data[j], "id") # k]

\* every row of the table that the step wrote reflects the first record that this
\* run examined with the row's key
WritesFirstOccurrence ==
    /\ \A r \in Range(db'.stations) \ Range(db.stations) :
          /\ r.uic_code \in DOMAIN first_seen'
          /\ first_seen'[r.uic_code] # NoItem
          /\ Reflects(r, StationUpdateVals(first_seen'[r.uic_code], Now))
    /\ \A r \in Range(db'.lines) \ Range(db.lines) :
          /\ \E i \in DOMAIN served'.lines.data : Get(served'.lines.data[i], "id") = r.line_code
          /\ Reflects(r, LineUpdateVals(FirstLine(served'.lines.data, r.line_code), Now))

\* C3: within a run, whatever a step of sync_stations or sync_lines writes to a row
\* (inserting or updating it) are the attribute values of the first record of the
\* run that carried the row's key; a later record with that key changes nothing.
C3_FirstOccurrenceWins == [][pc # "summary" => WritesFirstOccurrence]_vars

\* a station updated from the first record of its UIC code, a later and different
\* record with that code having been passed over
C3_Witness ==
    /\ K1 \in skipped
    /\ first_seen[K1] = GareA(K1)
    /\ \E r \in Range(db.stations) : r.uic_code = K1 /\ r.name = "Gare A" /\ r.updated_at = Now

\* a natural key that is missing or empty
NoKey(v) == v \in {Absent, None, ""}

\* the records of the list that carry a natural key in field f
Keyed(data, f) == {i \in DOMAIN data : ~NoKey(data[i][f])}

\* the field of an upstream record that holds the natural key
KeyField(tbl) ==
    CASE tbl = "regions"      -> "code"
      [] tbl = "departements" -> "code"
      [] tbl = "lines"        -> "id"

\* C4: no committed row of any table has a missing or empty natural key; the number
\* a sync procedure returns does not exceed the number of records that carried a key
\* (for sync_stations: the number of distinct non-empty codes it has seen).
C4_NoKeyNoRow ==
    /\ \A tbl \in Tables : \A r \in Range(db[tbl]) : ~NoKey(r[KeyColumn(tbl)])
    /\ \A tbl \in {"regions", "departements", "lines"} :
          served[tbl].called => results[tbl] <= Cardinality(Keyed(served[tbl].data, KeyField(tbl)))
    /\ \A k \in seen_uic_codes : ~NoKey(k)
    /\ count <= Cardinality(seen_uic_codes)
    /\ results.stations <= Cardinality({k \in DOMAIN first_seen : first_seen[k] # NoItem})

\* sync_regions was given four records of which three carry no code or no name: it
\* wrote and counted the fourth only
C4_Witness ==
    /\ served.regions.called
    /\ Len(served.regions.data) = 4
    /\ Cardinality(Keyed(served.regions.data, "code")) = 2
    /\ results.regions = 1
    /\ Len(db.regions) = 1
    /\ db.regions[1].code = "11"

\* the row without the time of its last update
Strip(row) == [f \in DOMAIN row \ {"updated_at"} |-> row[f]]

\* the two databases hold the same rows, the times of update apart
SameRows(d1, d2) ==
    \A tbl \in Tables :
        /\ Len(d1[tbl]) = Len(d2[tbl])
        /\ {Strip(r) : r \in Range(d1[tbl])} = {Strip(r) : r \in Range(d2[tbl])}

\* C5: when a run of sync_all against unchanged sources and without failure follows
\* another, it ends with the rows of the run before in every table, updated_at
\* apart, and with the same four counts.
C5_Idempotent ==
    (pc = "summary" /\ previous.results # NoResults)
        => SameRows(db, previous.db) /\ results = previous.results

\* a second run has ended that rewrote a station row
C5_Witness ==
    /\ pc = "summary"
    /\ previous.results # NoResults
    /\ results.stations >= 1
    /\ \E r \in Range(db.stations) : r.updated_at = Now

\* C6: when a run without failure has ended, every UIC code it received that had a
\* row at the end of the run before has exactly one row, and the name of that row is
\* the one of the record the run received.
C6_ResyncRenames ==
    pc = "summary" =>
        \A k \in DOMAIN first_seen :
            (first_seen[k] # NoItem /\ \E r \in Range(previous.db.stations) : r.uic_code = k)
                => /\ Cardinality(RowsWithKey(db, "stations", k)) = 1
                   /\ \A i \in RowsWithKey(db, "stations", k) :
                         db.stations[i].name = GetDefault(first_seen[k], "libelle", "Unknown")

\* the station synced as "Gare A" by one run is "Gare B" after the next
C6_Witness ==
    /\ pc = "summary"
    /\ \E r \in Range(previous.db.stations) : r.uic_code = K1 /\ r.name = "Gare A"
    /\ first_seen[K1] = GareB(K1)
    /\ Cardinality(RowsWithKey(db, "stations", K1)) = 1
    /\ \E r \in Range(db.stations) : r.uic_code = K1 /\ r.name = "Gare B"

\* C7: in every state of every run, failed requests and failed commits included, no
\* two committed rows of a table carry the same natural key.
C7_OneRowPerKey ==
    \A tbl \in Tables : \A i, j \in DOMAIN db[tbl] :
        db[tbl][i][KeyColumn(tbl)] = db[tbl][j][KeyColumn(tbl)] => i = j

\* sync_regions was given one code twice while no row carried it: the commit was
\* refused and nothing was written
C7_Witness ==
    /\ served.regions.called
    /\ Len(served.regions.data) = 2
    /\ served.regions.data[1].code = served.regions.data[2].code
    /\ results.regions = 0
    /\ db.regions = <<>>

\* the request of this step is answered with a page that is processed and committed
PageSucceeds == pc = "stations" /\ last_page'.kind = "ok"

\* the request of this step fails, by a timeout or otherwise
AttemptFails == pc = "stations" /\ last_page'.kind \in {"timeout", "error"}

\* C8: when the request of a page has timed out twice and the third attempt is
\* answered and committed, every record of the page whose code the run had not seen
\* has exactly one row, carrying its values, and is counted; consecutive_errors is 0;
\* sync_stations goes on at the next offset.
C8_ThirdAttemptSucceeds ==
    [][(PageSucceeds /\ retry_count = 2 /\ last_page.timeouts = 2)
        => /\ \A k \in seen_uic_codes' \ seen_uic_codes :
                /\ Cardinality(RowsWithKey(db', "stations", k)) = 1
                /\ \A i \in RowsWithKey(db', "stations", k) :
                      Reflects(db'.stations[i], StationUpdateVals(first_seen'[k], Now))
           /\ count' = count + Cardinality(seen_uic_codes' \ seen_uic_codes)
           /\ consecutive_errors' = 0
           /\ retry_count' = 0
           /\ pc' = "stations"
           /\ offset' = offset + batch_size]_vars

\* a page was committed on the third attempt, after two timeouts, and a record of it
\* was written and counted
C8_Witness ==
    /\ pc = "stations"
    /\ last_page = [kind |-> "ok", timeouts |-> 2, wait |-> 0]
    /\ consecutive_errors = 0
    /\ offset = batch_size
    /\ count = 1
    /\ Len(db.stations) = 1

\* C9: fewer than max_retries requests have been made at the current offset whenever
\* another may follow, so that no offset is requested more than max_retries times;
\* when the last of them fails, sync_stations returns count if consecutive_errors has
\* reached max_consecutive_errors, and otherwise goes on at the next offset with
\* count unchanged.
C9_SkipsAfterThreeAttempts ==
    /\ [](attempts_here < max_retries)
    /\ [][(AttemptFails /\ retry_count = max_retries - 1)
            => IF consecutive_errors + 1 >= max_consecutive_errors
               THEN pc' = "lines" /\ results'.stations = count
               ELSE /\ pc' = "stations"
                    /\ offset' = offset + batch_size
                    /\ retry_count' = 0
                    /\ count' = count]_vars

\* the three attempts at offset 0 have failed and sync_stations is at offset 100
C9_Witness ==
    /\ pc = "stations"
    /\ last_page.kind \in {"timeout", "error"}
    /\ offset = batch_size
    /\ retry_count = 0
    /\ attempts_here = 0
    /\ consecutive_errors = max_retries

\* C10: consecutive_errors goes up at a step only if that step uses up the retries
\* of a page, and then by one.
C10_CountsSkippedPages ==
    [][(pc = "stations" /\ consecutive_errors' > consecutive_errors)
        => /\ retry_count = max_retries - 1
           /\ consecutive_errors' = consecutive_errors + 1]_vars

\* the number of records with distinct keys that the fixed source of a table holds
FixedCount(tbl) ==
    CASE tbl = "regions"      -> Len(StaticRegions)
      [] tbl = "departements" -> Len(StaticDepartements)
      [] tbl = "stations"     ->
            Cardinality(UNION { {p[i].code_uic : i \in DOMAIN p} : p \in Range(DefaultStations.pages) })
      [] tbl = "lines"        -> Len(DefaultLines)

\* C11: when get_regions has returned the list of the service, every sync procedure
\* that read its fixed source and suffered no failure of its own reports the full
\* count of that source and has its rows in the table, whatever failed in the
\* procedure of the live source.
C11_LaterSyncsComplete ==
    (served.regions.called /\ served.regions.data = StaticRegions)
        => \A tbl \in Tables \ upstream.live :
              results[tbl] # -1
                  => results[tbl] = FixedCount(tbl) /\ Len(db[tbl]) = FixedCount(tbl)

\* C12: a run of sync_all in which sync_stations skipped a page does not end with
\* the results that the run before, which skipped none, ended with against the same
\* data: the summary, printed from results alone, tells the two apart.
C12_SummaryMarksShortRun ==
    (pc = "summary" /\ short /\ previous.results # NoResults /\ ~previous.short)
        => results # previous.results

\* the moves of sync_all from one procedure to the next, and from the summary of
\* one run to the start of the next
InOrder ==
    {<<"regions", "departements">>, <<"departements", "stations">>, <<"stations", "lines">>,
     <<"lines", "summary">>, <<"summary", "regions">>}

\* C13: in every run the four procedures are called once each in the order regions,
\* departements, stations, lines: sync_all moves only from one to the next; the
\* result of a procedure is assigned once, when it returns, while it is the running
\* one; a service is called, and the stations loop requests a page or changes its
\* locals, only while its own procedure is the running one.
C13_FixedOrder ==
    [][/\ pc' # pc => <<pc, pc'>> \in InOrder
       /\ (pc # "summary" /\ pc' # pc)
              => /\ results[pc] = -1
                 /\ results'[pc] >= 0
                 /\ \A t \in Tables \ {pc} : results'[t] = results[t]
       /\ (pc # "summary" /\ pc' = pc) => results' = results
       /\ \A t \in DOMAIN served \ {pc} : pc # "summary" => served'[t] = served[t]
       /\ pc \notin {"stations", "summary"}
              => UNCHANGED <<stationVars, attempts_here, last_page, skipped>>]_vars

C13_Witness ==
    /\ pc = "summary"
    /\ \A t \in Tables : results[t] > 0
    /\ last_page.kind = "empty"

StationRows(d, k) == {d.stations[i] : i \in RowsWithKey(d, "stations", k)}

\* the keys of the stations with a change pending in the session between two
\* attempts: changes made by an attempt that failed (every such key is in
\* seen_uic_codes, so no later attempt of the run makes a change of its own to it)
PendingKeys == {session[i].key : i \in {j \in DOMAIN session : session[j].tbl = "stations"}}

\* C15: what an attempt of sync_stations that failed had added to or modified in
\* the session is rolled back: no later step of the run (the retried page, a later
\* page, sync_lines) commits a change to the row of such a station.
C15_FailedPageRolledBack ==
    [][pc # "summary" => \A k \in PendingKeys : StationRows(db', k) = StationRows(db, k)]_vars

\* C16: a request of sync_stations that fails otherwise than by a timeout (a 4xx
\* status raised by raise_for_status, a body that response.json() cannot parse)
\* ends the stations loop at once: sync_stations returns and sync_lines is next, with
\* no further attempt on the page and no request for a later one.
C16_FatalErrorAborts == [][StationsRequestError => pc' = "lines"]_vars

\* the row that the claim has an upsert of record item leave: the key, every
\* attribute taken from the record, is_active true, and updated_at stamped when the
\* row existed
UpsertedStation(item, existed) ==
    [StationInsertRow(item) EXCEPT !.updated_at = IF existed THEN Now ELSE Null_at]

UpsertedLine(item, existed) ==
    [LineInsertRow(item) EXCEPT !.updated_at = IF existed THEN Now ELSE Null_at]

CommittedKeys(d, tbl) == {d[tbl][i][KeyColumn(tbl)] : i \in DOMAIN d[tbl]}

\* C18: no step of any run, failed requests and failed commits included, removes a
\* natural key from regions, departements, stations or lines: the keys committed
\* before a step are committed after it, across runs as well.
C18_KeysOnlyGrow ==
    [][\A tbl \in Tables : CommittedKeys(db, tbl) \subseteq CommittedKeys(db', tbl)]_vars

\* a run has ended in which the regions service returned nothing, and the regions
\* and stations of the run before are all there
C18_Witness ==
    /\ pc = "summary"
    /\ served.regions.called /\ served.regions.data = <<>>
    /\ Cardinality(CommittedKeys(db, "regions")) = 2
    /\ Cardinality(CommittedKeys(db, "stations")) = 2

\* C19: no step of a run inserts, updates or deletes a row of the trains table or of
\* any table other than regions, departements, stations and lines.
C19_OtherTablesUntouched ==
    [][\A tbl \in DOMAIN db \ Tables : db'[tbl] = db[tbl]]_vars

\* a run on a database that holds a train has synced the line of that train and
\* stations, and the train is as it was
C19_Witness ==
    /\ pc = "summary"
    /\ results.lines > 0 /\ results.stations > 0
    /\ db.trains = <<TrainRow>>
    /\ \E r \in Range(db.lines) : r.line_code = TrainRow.line_code /\ r.updated_at = Now

\* the UIC codes that sync_stations accepts from page i of an unchanging dataset:
\* those of its records that no earlier page carries
AcceptedFrom(pages, i) ==
    {pages[i][j].code_uic : j \in {n \in DOMAIN pages[i] : ~IsNull(pages[i][n]) /\ ~Falsy(Get(pages[i][n], "code_uic"))}}
        \ UNION { {pages[h][j].code_uic : j \in {n \in DOMAIN pages[h] : ~IsNull(pages[h][n])}} : h \in 1..(i - 1) }

\* C20: in every state that a reader of the stations table may observe, during a run
\* or after the process was killed, each page of the dataset is visible as a whole
\* or not at all: of the stations accepted from a page, none has a row or all have.
C20_WholePagesVisible ==
    \A i \in DOMAIN upstream.stations.pages :
        \/ AcceptedFrom(upstream.stations.pages, i) \cap CommittedKeys(db, "stations") = {}
        \/ AcceptedFrom(upstream.stations.pages, i) \subseteq CommittedKeys(db, "stations")

\* an attempt fails and the page will be attempted again: its except clause sleeps
RetryWaits == AttemptFails /\ retry_count' = retry_count + 1 /\ retry_count' < max_retries

\* after the n-th failed attempt at a page (n = 1, 2) the except clause taken sleeps
\* n x 5 seconds for a timeout and n x 2 seconds for any other exception
WaitsByKind ==
    RetryWaits => last_page'.wait = retry_count' * (IF last_page'.kind = "timeout" THEN 5 ELSE 2)

Named(data) == {i \in DOMAIN data : ~Falsy(Get(data[i], "code")) /\ ~Falsy(Get(data[i], "nom"))}

\* the codes that more than one such record of the list carries
TwiceIn(data) ==
    {data[i].code : i \in {n \in Named(data) : \E m \in Named(data) : m # n /\ data[m].code = data[n].code}}

\* the first such record of the list with code k
FirstNamed(data, k) ==
    data[CHOOSE i \in Named(data) :
            /\ data[i].code = k
            /\ \A j \in Named(data) : data[j].code = k => i <= j]

RECURSIVE Flatten(_)
\* the records of all the pages, in page order
Flatten(pages) == IF pages = <<>> THEN <<>> ELSE Head(pages) \o Flatten(Tail(pages))

\* C23: when no request of get_lines fails, the list it returns to sync_lines holds
\* every line of every page of the endpoint, in page order, whatever
\* pagination.total_result the responses carry or lack.
C23_AllLinesReturned ==
    (served.lines.called /\ upstream.navitia.fails_at = 0)
        => served.lines.data = Flatten(upstream.navitia.pages)

\* C24: sync_stations called with a limit L > 0 has returned once its count of
\* processed records has reached L: it is not in its loop, about to request the next
\* page, with count >= L.
C24_StopsAtLimit ==
    (Limit > 0 /\ count >= Limit) => pc # "stations"

\* the UIC codes that the pages of an unchanging dataset carry
AllAccepted(pages) == UNION {AcceptedFrom(pages, i) : i \in DOMAIN pages}

\* C25: when sync_stations has returned without having given up on any page, attempts
\* that failed and were repeated included, every station of the dataset has its row
\* and the number returned counts each of them once.
C25_RetriedPageCounted ==
    (StationsReturned /\ ~short)
        => /\ results.stations = Cardinality(AllAccepted(upstream.stations.pages))
           /\ AllAccepted(upstream.stations.pages) \subseteq CommittedKeys(db, "stations")

\* C26: when a request of get_lines raises, pages fetched before it or not, sync_lines
\* is given an empty list: it returns 0, leaves the lines table as it was and leaves
\* nothing pending.
C26_FailedGetLinesSyncsNothing ==
    [][(pc = "lines" /\ Paginate(upstream.navitia, 0, <<>>).raised)
          => /\ served'.lines = [called |-> TRUE, data |-> <<>>]
             /\ results'.lines = 0
             /\ db'.lines = db.lines
             /\ session' = <<>>]_vars

\* the second request of get_lines raised after a first page of two lines: the run
\* has ended with 0 lines reported and the lines of an earlier run as they were
C26_Witness ==
    /\ pc = "summary"
    /\ upstream.navitia.fails_at = 2
    /\ upstream.navitia.pages # <<>>
    /\ Paginate(upstream.navitia, 0, <<>>) = [raised |-> TRUE, lines |-> upstream.navitia.pages[1]]
    /\ results.lines = 0
    /\ Len(db.lines) = 3

\* is_active of the row that table tbl of database d holds for key k, TRUE if none
ActiveBefore(d, tbl, k) ==
    \A q \in Range(d[tbl]) : q[KeyColumn(tbl)] = k => q.is_active

AcceptedKeys(tbl, data) ==
    IF tbl = "lines" THEN {data[i].id : i \in Keyed(data, "id")}
    ELSE {data[i].code : i \in Named(data)}

\* C27: a call of sync_regions, sync_departements or sync_lines does all or nothing:
\* either it returns 0, leaves its table exactly as it was and leaves nothing
\* pending, or it returns a positive count and every record it did not pass over
\* has its row.
C27_AllOrNothing ==
    [][\A tbl \in {"regions", "departements", "lines"} :
          (pc = tbl /\ pc' # pc)
              => \/ /\ results'[tbl] = 0
                    /\ db'[tbl] = db[tbl]
                    /\ session' = <<>>
                 \/ /\ results'[tbl] > 0
                    /\ session' = <<>>
                    /\ AcceptedKeys(tbl, served'[tbl].data) \subseteq CommittedKeys(db', tbl)]_vars

\* the commit of sync_regions failed on a list with a region that had no row yet: 0
\* was returned and the table holds the one region of the run before, as it was
C27_Witness ==
    /\ pc = "departements"
    /\ served.regions.data = StaticRegions
    /\ results.regions = 0
    /\ CommittedKeys(db, "regions") = {"84"}

\* C28: no step of a run changes the is_active flag of a station or line that has a
\* row, whether the step updates the row or not; a row that a step inserts has
\* is_active = TRUE.
C28_ActiveFlagKept ==
    [][\A tbl \in {"stations", "lines"} : \A r \in Range(db'[tbl]) :
          IF r[KeyColumn(tbl)] \in CommittedKeys(db, tbl)
          THEN \A q \in Range(db[tbl]) :
                  q[KeyColumn(tbl)] = r[KeyColumn(tbl)] => r.is_active = q.is_active
          ELSE r.is_active = TRUE]_vars

\* a run has updated the deactivated station and the deactivated line, and inserted
\* another station: the two are still inactive, the new one is active
C28_Witness ==
    /\ pc = "summary"
    /\ \E r \in Range(db.stations) : r.uic_code = K1 /\ r.updated_at = Now /\ ~r.is_active
    /\ \E r \in Range(db.stations) : r.uic_code = K2 /\ r.is_active
    /\ \E r \in Range(db.lines) : r.updated_at = Now /\ ~r.is_active

\* the number sync_stations has counted so far in state (p, c, res): its local count
\* while it runs, the number it returned once it has returned
CountedSoFar(p, c, res) == IF p = "stations" THEN c ELSE res.stations

\* C29: each step of sync_stations raises the number it will return by the number of
\* distinct UIC codes whose insert or update the step commits to the stations table,
\* so that the number returned is the number of codes committed during the run; and
\* the count never exceeds the number of codes accepted as seen.
C29_ReturnedCountsCommitted ==
    [][pc = "stations" =>
        /\ count <= Cardinality(seen_uic_codes)
        /\ CountedSoFar(pc', count', results') - count
              = Cardinality({r.uic_code : r \in Range(db'.stations) \ Range(db.stations)})]_vars

\* C30: in sync_stations the offset is a multiple of batch_size; an attempt either is
\* repeated at the same offset with the retries not yet used up, or ends the
\* iteration of the outer loop with the offset advanced by exactly batch_size, or
\* ends the loop; and the loop ends only on an empty page or on the failure that
\* brings consecutive_errors to max_consecutive_errors, never by "not success".
C30_OffsetAdvances ==
    [][pc = "stations" =>
        /\ offset % batch_size = 0
        /\ \/ /\ pc' = "stations"
              /\ offset' = offset
              /\ retry_count' = retry_count + 1
              /\ retry_count' < max_retries
           \/ /\ pc' = "stations"
              /\ offset' = offset + batch_size
              /\ retry_count' = 0
           \/ /\ pc' # "stations"
              /\ \/ last_page'.kind = "empty"
                 \/ /\ last_page'.kind \in {"timeout", "error"}
                    /\ consecutive_errors + 1 >= max_consecutive_errors]_vars

\* the page at offset 100 was given up after max_retries failed attempts: the loop
\* goes on at offset 200 with a new retry_count
C30_Witness ==
    /\ pc = "stations"
    /\ offset = 2 * batch_size
    /\ retry_count = 0
    /\ last_page.kind \in {"timeout", "error"}
    /\ consecutive_errors = max_retries

====
